---- MODULE Spec2Model ----
(***************************************************************************)
(* A model of rdflangserver: the token scanner (utils.py), the vocabulary  *)
(* cache and the prefix registry (cache.py) and the completion engine      *)
(* (completer.py, server.py).                                              *)
(*                                                                         *)
(* Python strings are sequences of one-character strings; Python indices   *)
(* are 0-based, so the character at Python index k of s is s[k + 1].       *)
(***************************************************************************)
EXTENDS Integers, Sequences, FiniteSets, TLC

VARIABLES
    graph,        \* GraphCache.graph: context id -> set of triples
    mtime_map,    \* GraphCache.mtime_map: url -> mtime recorded at the last parse
    disk,         \* the cache directory: url -> cache file (NoFile when absent)
    files,        \* the local vocabulary files: path -> [mtime, doc]
    web,          \* the network: source url -> document served
    pfxgraph,     \* PrefixCache._pfxgraph: the namespace bindings, prefix -> ns
    prefix_file,  \* the persisted prefix file (NoFile, or its lines)
    terms_by_ns,  \* RdfCompleter._terms_by_ns: ns -> set of term names
    op,           \* the last operation called, with its arguments
    result,       \* what that operation returned, or that it raised
    events,       \* what that operation did on its way (parse, fetch, ...)
    tick          \* flips at every load, which tells two equal loads in a row apart

vars == <<graph, mtime_map, disk, files, web, pfxgraph, prefix_file,
          terms_by_ns, op, result, events, tick>>

\* None where a string is expected: a sequence that is no string (its
\* element is not a character), so that it differs from every string.
None == <<"None">>

\* An absent file of the cache directory.
NoFile == [exists |-> FALSE, triples |-> {}]

(***************************************************************************)
(* Python string primitives                                                *)
(***************************************************************************)
Min(a, b) == IF a < b THEN a ELSE b
Max(a, b) == IF a > b THEN a ELSE b

\* A Python slice bound: negative counts from the end, then clamped.
PyBound(n, k) == IF k < 0 THEN Max(k + n, 0) ELSE Min(k, n)

\* s[a:b]
PySlice(s, a, b) ==
    LET lo == PyBound(Len(s), a)
        hi == PyBound(Len(s), b)
    IN  IF lo < hi THEN SubSeq(s, lo + 1, hi) ELSE <<>>

\* s[a:]
PySliceFrom(s, a) == PySlice(s, a, Len(s))

\* s[i::-1]: from index i down to index 0
PyRevFrom(s, i) ==
    LET j  == IF i < 0 THEN i + Len(s) ELSE i
        st == Min(j, Len(s) - 1)
    IN  IF st < 0 THEN <<>> ELSE [k \in 1..(st + 1) |-> s[st + 2 - k]]

StartsWith(s, p) == Len(p) <= Len(s) /\ SubSeq(s, 1, Len(p)) = p
EndsWith(s, p) == Len(p) <= Len(s) /\ SubSeq(s, Len(s) - Len(p) + 1, Len(s)) = p
Contains(s, c) == \E k \in 1..Len(s) : s[k] = c

\* s.find(c): the first Python index of character c, or -1
Find(s, c) == IF Contains(s, c) THEN (CHOOSE k \in 1..Len(s) : s[k] = c /\ \A j \in 1..(k - 1) : s[j] # c) - 1 ELSE -1

Letters == {"a", "b", "c", "d", "e", "f", "g", "h", "i", "j", "k", "l", "m",
            "n", "o", "p", "q", "r", "s", "t", "u", "v", "w", "x", "y", "z",
            "A", "B", "C", "D", "E", "F", "G", "H", "I", "J", "K", "L", "M",
            "N", "O", "P", "Q", "R", "S", "T", "U", "V", "W", "X", "Y", "Z"}
Digits == {"0", "1", "2", "3", "4", "5", "6", "7", "8", "9"}
Whitespace == {" ", "\t"}

(***************************************************************************)
(* utils.py                                                                *)
(***************************************************************************)
\* The complement of the class [^:A-Za-z0-9-_]
IsTermChar(c) == c \in Letters \cup Digits \cup {":", "-", "_"}

\* The first index of s holding a character outside the class, Len(s) if none
FirstNotTermChar(s) ==
    IF \E k \in 1..Len(s) : ~IsTermChar(s[k])
    THEN (CHOOSE k \in 1..Len(s) : ~IsTermChar(s[k]) /\ \A j \in 1..(k - 1) : IsTermChar(s[j])) - 1
    ELSE Len(s)

\* The class alone, without the |$ alternative: -1 when no character matches.
SearchWithoutEnd(s) ==
    IF \E k \in 1..Len(s) : ~IsTermChar(s[k]) THEN FirstNotTermChar(s) ELSE -1

\* NOT_TERM_CHAR.search(s).span()[0], -1 for no match: [^:A-Za-z0-9-_]|$
\* matches at the first character outside the class, or else at the end.
NOT_TERM_CHAR_search(s) == FirstNotTermChar(s)

get_term_at(line, i) ==
    LET front == NOT_TERM_CHAR_search(PySliceFrom(line, i))
        back  == NOT_TERM_CHAR_search(PyRevFrom(line, i))
    IN  IF front = -1 THEN None
        ELSE IF back = -1 THEN None
        ELSE PySlice(line, i - back + 1, i + front)

(***************************************************************************)
(* The fixture: one local vocabulary file, one remote vocabulary, and the  *)
(* namespace that VOCAB_SOURCE_MAP redirects.                              *)
(***************************************************************************)
LocalPath == <<"/", "v", ".", "t", "t", "l">>
RemoteUrl == <<"h", "t", "t", "p", ":", "/", "/", "e", "/">>
OtherNs == <<"h", "t", "t", "p", ":", "/", "/", "o", "/">>
SchemaUrl == <<"h", "t", "t", "p", ":", "/", "/", "s", "c", "h", "e", "m", "a", ".", "o", "r", "g", "/">>
SchemaSrc == SchemaUrl \o <<"d", "o", "c", "s", "/", "s", "c", "h", "e", "m", "a", "_", "o", "r", "g", "_", "r", "d", "f", "a", ".", "h", "t", "m", "l">>

LocalFiles == {LocalPath}
Urls == {LocalPath, RemoteUrl, SchemaUrl}
WebSources == {RemoteUrl, SchemaSrc}

\* The highest modification time a file of the model takes.
MaxMtime == 2

VOCAB_SOURCE_MAP == (SchemaUrl :> SchemaSrc)

\* A triple, as far as the term index looks at it: the subject's namespace
\* and local name (what split_uri gives; an empty leaf is a subject that
\* cannot be split) and whether the predicate is rdf:type, rdfs:isDefinedBy
\* or something else.
Triple(ns, leaf, p) == [ns |-> ns, leaf |-> leaf, p |-> p]
Bar == <<"B", "a", "r">>
Baz == <<"B", "a", "z">>
Lab == <<"L", "a", "b">>

\* What a source holds: the triples a parser emits from it, and how the
\* read ends: "ok", "syntax" (a syntax error after those triples) or "net"
\* (the source cannot be opened).
Doc(triples, status) == [triples |-> triples, status |-> status]

\* A vocabulary of namespace ns: two terms, and subjects that are none
FullDoc(ns) ==
    Doc({Triple(ns, Bar, "type"), Triple(ns, Baz, "isDefinedBy"),
         Triple(ns, Lab, "label"), Triple(OtherNs, Bar, "type"),
         Triple(ns, <<>>, "type")}, "ok")

\* The namespace whose terms a source defines.
NsOfSource(src) == IF src = SchemaSrc THEN SchemaUrl ELSE src

\* The documents a local file holds over time
FileDocs(f) == { Doc({}, "ok"), FullDoc(f), Doc({Triple(f, Bar, "type")}, "syntax") }

\* The documents a source on the network serves over time
WebDocs(x) ==
    IF x = SchemaSrc THEN { FullDoc(NsOfSource(x)), Doc({}, "net") }
    ELSE { Doc({}, "ok"), FullDoc(x), Doc({Triple(x, Bar, "type")}, "syntax"), Doc({}, "net") }

(***************************************************************************)
(* cache.py: GraphCache                                                    *)
(***************************************************************************)
\* os.path.isfile(url): the local files of the model are there throughout
isfile(url) == url \in LocalFiles

\* create_input_source(x).getPublicId(): the file URI of a local path, the
\* URL itself otherwise.
getPublicId(x) == IF isfile(x) THEN <<"f", "i", "l", "e", ":", "/", "/">> \o x ELSE x

ContextIds == {getPublicId(u) : u \in Urls \cup WebSources}

\* What a parser reads at src.
SourceDoc(src) == IF isfile(src) THEN files[src].doc ELSE web[src]

\* A Turtle serialization ends with a newline, so it is never empty.
st_size(file) == Cardinality(file.triples) + 1

CacheFile(triples) == [exists |-> TRUE, triples |-> triples]

Put(f, k, v) == [x \in DOMAIN f \cup {k} |-> IF x = k THEN v ELSE f[x]]

\* What load leaves behind: the three parts of the cache state, whether it
\* raised, what it returned, and what it did.
Outcome(g, m, d, raised, ret, ev) ==
    [graph |-> g, mtime_map |-> m, disk |-> d, raised |-> raised, ret |-> ret, events |-> ev]

\* VOCAB_SOURCE_MAP.get(str(url), url)
Source(url) == IF url \in DOMAIN VOCAB_SOURCE_MAP THEN VOCAB_SOURCE_MAP[url] ELSE url

\* The fetch branch as it would be if the context of the identifier were
\* serialized, not the graph that parse returned
FetchedFromContext(url, doc, parsed) ==
    CASE doc.status = "net" ->
            Outcome(graph, mtime_map, disk, TRUE, {}, {"fetch"})
      [] doc.status = "syntax" ->
            Outcome(parsed, mtime_map, disk, TRUE, {}, {"fetch"})
      [] OTHER ->
            Outcome(parsed, mtime_map, [disk EXCEPT ![url] = CacheFile(parsed[getPublicId(url)])],
                    FALSE, doc.triples, {"fetch", "write_cache"})

\* Lines 88-93 of load: self.graph.parse(src) parses into the context named
\* by the source's public id, triple by triple, so what was read before a
\* syntax error stays in the store; a source that cannot be opened raises
\* before anything is touched.
Fetched(url, doc, parsed) ==
    CASE doc.status = "net" ->
            Outcome(graph, mtime_map, disk, TRUE, {}, {"fetch"})
      [] doc.status = "syntax" ->
            Outcome(parsed, mtime_map, disk, TRUE, {}, {"fetch"})
      [] OTHER ->
            Outcome(parsed, mtime_map, [disk EXCEPT ![url] = CacheFile(doc.triples)],
                    FALSE, doc.triples, {"fetch", "write_cache"})

\* Lines 76-93 as they would be without the test of the context at line 76
loadTailWithoutContext(url, context_id) ==
    IF disk[url].exists /\ st_size(disk[url]) > 0
    THEN Outcome([graph EXCEPT ![context_id] = disk[url].triples], mtime_map, disk,
                 FALSE, disk[url].triples, {"read_cache"})
    ELSE Fetched(url, SourceDoc(Source(url)),
                 [graph EXCEPT ![getPublicId(Source(url))] = SourceDoc(Source(url)).triples])

\* Lines 76-93 as they would be without the test of the cache file at
\* line 83
loadTailWithoutCacheFile(url, context_id) ==
    IF graph[context_id] # {}
    THEN Outcome(graph, mtime_map, disk, FALSE, graph[context_id], {"context"})
    ELSE Fetched(url, SourceDoc(Source(url)),
                 [graph EXCEPT ![getPublicId(Source(url))] = SourceDoc(Source(url)).triples])

\* lines 76-93 of load
loadTail(url, context_id) ==
    IF graph[context_id] # {}
    THEN Outcome(graph, mtime_map, disk, FALSE, graph[context_id], {"context"})
    ELSE IF disk[url].exists /\ st_size(disk[url]) > 0
    THEN Outcome([graph EXCEPT ![context_id] = disk[url].triples], mtime_map, disk,
                 FALSE, disk[url].triples, {"read_cache"})
    ELSE Fetched(url, SourceDoc(Source(url)),
                 [graph EXCEPT ![getPublicId(Source(url))] = SourceDoc(Source(url)).triples])

\* The test of line 63: never parsed (mtime_map.get gives None), or the
\* recorded mtime is falsy or older than the file's.
NeedsParse(url, vocab_mtime) ==
    IF url \notin DOMAIN mtime_map THEN TRUE
    ELSE mtime_map[url] = 0 \/ mtime_map[url] < vocab_mtime

\* The local-file branch as it would be without remove_context
ParsedWithoutClearing(context_id, doc, m) ==
    IF doc.status = "ok"
    THEN Outcome([graph EXCEPT ![context_id] = @ \cup doc.triples], m, disk,
                 FALSE, doc.triples, {"parse_file"})
    ELSE Outcome(graph, m, disk, TRUE, {}, {"parse_file"})

\* GraphCache.load(url)
\* Lines 64-72 of load: the mtime is recorded, then the file is parsed into
\* a graph of its own, which replaces the context only if the parse ends
Parsed(context_id, doc, m) ==
    IF doc.status = "ok"
    THEN Outcome([graph EXCEPT ![context_id] = doc.triples], m, disk,
                 FALSE, doc.triples, {"parse_file"})
    ELSE Outcome(graph, m, disk, TRUE, {}, {"parse_file"})

load(url) ==
    IF isfile(url)
    THEN IF NeedsParse(url, files[url].mtime)
         THEN Parsed(getPublicId(url), SourceDoc(Source(url)),
                     Put(mtime_map, url, files[url].mtime))
         ELSE loadTail(url, getPublicId(url))
    ELSE loadTail(url, url)

\* Whether an operation read and parsed a vocabulary source (line 68 or 88).
ParsedSource(ev) == "parse_file" \in ev \/ "fetch" \in ev

(***************************************************************************)
(* cache.py: PrefixCache                                                   *)
(***************************************************************************)
XMLNS == <<"h", "t", "t", "p", ":", "/", "/", "w", "w", "w", ".", "w", "3", ".", "o", "r", "g", "/", "X", "M", "L", "/", "1", "9", "9", "8", "/", "n", "a", "m", "e", "s", "p", "a", "c", "e">>
PfxXml == <<"x", "m", "l">>
PfxEx == <<"e", "x">>
PfxO == <<"o">>
PfxRdf == <<"r", "d", "f">>
RDFNS == <<"h", "t", "t", "p", ":", "/", "/", "w", "w", "w", ".", "w", "3", ".", "o", "r", "g", "/", "1", "9", "9", "9", "/", "0", "2", "/", "2", "2", "-", "r", "d", "f", "-", "s", "y", "n", "t", "a", "x", "-", "n", "s", "#">>
PfxZz == <<"z", "z">>
PfxSdo == <<"s", "d", "o">>

\* The prefixes the model looks up.
Prefixes == {PfxXml, PfxEx, PfxSdo, PfxO, PfxZz}

\* Bindings a new rdflib Graph starts with, as the ordered table of (prefix,
\* namespace) pairs: the store keeps them in a dict, in the order in which
\* they were bound, and the core bindings end with xml.
DefaultBindings == << <<PfxRdf, RDFNS>>, <<PfxXml, XMLNS>> >>

\* What http://prefix.cc/{pfx}.file.ttl declares, for the prefixes it knows.
PrefixCC == (PfxEx :> RemoteUrl) @@ (PfxSdo :> SchemaUrl) @@ (PfxO :> OtherNs)

\* What a fetch of the prefix document gives: the document if the service
\* is up and knows the prefix, a failure otherwise (not found, network down).
PrefixAnswer(pfx, up) ==
    IF up /\ pfx \in DOMAIN PrefixCC
    THEN [status |-> "ok", bindings |-> << <<pfx, PrefixCC[pfx]>> >>]
    ELSE [status |-> "fail", bindings |-> <<>>]

NoPrefixFile == [exists |-> FALSE, bindings |-> <<>>]

Bound(t, pfx) == \E k \in 1..Len(t) : t[k][1] = pfx

\* self._pfxgraph.store.namespace(pfx) on table t
namespace(t, pfx) ==
    IF Bound(t, pfx) THEN t[CHOOSE k \in 1..Len(t) : t[k][1] = pfx][2] ELSE None

\* Binding pfx to ns in table t: in place if pfx is bound, at the end if not
bind(t, pfx, ns) ==
    IF Bound(t, pfx)
    THEN [k \in 1..Len(t) |-> IF t[k][1] = pfx THEN <<pfx, ns>> ELSE t[k]]
    ELSE Append(t, <<pfx, ns>>)

RECURSIVE bindAll(_, _)
\* Parsing a document that declares bindings into the graph of table t
bindAll(t, bindings) ==
    IF bindings = <<>> THEN t
    ELSE bindAll(bind(t, Head(bindings)[1], Head(bindings)[2]), Tail(bindings))

\* Python's truth of an optional string
Truthy(x) == x # None /\ x # <<>>

\* The lines _fetch_ns would print without its test for the XML namespace
SavedUnfiltered(t) == t

RECURSIVE SavedBindings(_)
\* The lines _fetch_ns prints: every binding but those to the XML namespace.
SavedBindings(t) ==
    IF t = <<>> THEN <<>>
    ELSE (IF Head(t)[2] = XMLNS THEN <<>> ELSE <<Head(t)>>) \o SavedBindings(Tail(t))

PfxOutcome(t, f, raised, ret, ev) ==
    [pfxgraph |-> t, prefix_file |-> f, raised |-> raised, ret |-> ret, events |-> ev]

\* The value of pfx after the loop of lines 130-133, whose variable has the
\* name of the parameter: the prefix of the last binding of the table, the
\* parameter if the table is empty
LoopPfx(t, pfx) == IF t = <<>> THEN pfx ELSE t[Len(t)][1]

\* Lines 127-135 of _fetch_ns, t being the table after the parse: the file
\* is written anew, and the namespace of pfx, as the loop left it, returned
Saved(t, pfx, ev) ==
    PfxOutcome(t, [exists |-> TRUE, bindings |-> SavedBindings(t)], FALSE,
               namespace(t, LoopPfx(t, pfx)), ev)

\* PrefixCache._fetch_ns(pfx), the prefix service being up or not
fetch_ns(pfx, up) ==
    IF PrefixAnswer(pfx, up).status = "ok"
    THEN Saved(bindAll(pfxgraph, PrefixAnswer(pfx, up).bindings), pfx,
               {"prefix_fetch", "save_prefixes"})
    ELSE Saved(pfxgraph, pfx, {"prefix_fetch", "save_prefixes", "prefix_fetch_failed"})

\* PrefixCache.lookup(pfx)
lookup(pfx, up) ==
    IF Truthy(namespace(pfxgraph, pfx))
    THEN PfxOutcome(pfxgraph, prefix_file, FALSE, namespace(pfxgraph, pfx), {})
    ELSE fetch_ns(pfx, up)

\* PrefixCache.__init__: the default bindings and those of the prefix file,
\* if there is one
InitPfxgraph(file) ==
    IF file.exists THEN bindAll(DefaultBindings, file.bindings) ELSE DefaultBindings

(***************************************************************************)
(* completer.py: the term index                                            *)
(***************************************************************************)
\* _collect_vocab_terms: the local names of the subjects that have a type or
\* an isDefinedBy, split into the namespace ns and a non-empty leaf
Terms(triples, ns) ==
    {t.leaf : t \in {x \in triples : /\ x.p \in {"type", "isDefinedBy"}
                                     /\ x.leaf # <<>>
                                     /\ x.ns = ns}}

\* self._terms_by_ns.get(ns), as an optional
TermsGet(index, ns) ==
    IF ns \in DOMAIN index THEN [some |-> TRUE, terms |-> index[ns]]
    ELSE [some |-> FALSE, terms |-> {}]

VocabOutcome(g, m, d, index, raised, ret, ev) ==
    [graph |-> g, mtime_map |-> m, disk |-> d, terms_by_ns |-> index,
     raised |-> raised, ret |-> ret, events |-> ev]

\* The test of line 49 as it would be with 'not terms' for 'terms is None'
MustBuildIfFalsy(ns) ==
    /\ Truthy(ns)
    /\ IF ns \in DOMAIN terms_by_ns THEN terms_by_ns[ns] = {} ELSE TRUE

\* The test of line 49: terms is None and ns
MustBuild(ns) == ns \notin DOMAIN terms_by_ns /\ Truthy(ns)

\* Lines 50-51 as they would be if a load that raised left an empty entry
CollectedOrEmpty(ns, out) ==
    IF out.raised
    THEN VocabOutcome(out.graph, out.mtime_map, out.disk, Put(terms_by_ns, ns, {}), TRUE,
                      TermsGet(terms_by_ns, ns), out.events \cup {"load"})
    ELSE VocabOutcome(out.graph, out.mtime_map, out.disk,
                      Put(terms_by_ns, ns, Terms(out.ret, ns)), FALSE,
                      [some |-> TRUE, terms |-> Terms(out.ret, ns)],
                      out.events \cup {"load"})

\* Lines 50-51: the terms collected from what load gave are stored under ns;
\* if load raised nothing is stored
Collected(ns, out) ==
    IF out.raised
    THEN VocabOutcome(out.graph, out.mtime_map, out.disk, terms_by_ns, TRUE,
                      TermsGet(terms_by_ns, ns), out.events \cup {"load"})
    ELSE VocabOutcome(out.graph, out.mtime_map, out.disk,
                      Put(terms_by_ns, ns, Terms(out.ret, ns)), FALSE,
                      [some |-> TRUE, terms |-> Terms(out.ret, ns)],
                      out.events \cup {"load"})

\* RdfCompleter.get_vocab_terms(ns)
get_vocab_terms(ns) ==
    IF MustBuild(ns)
    THEN Collected(ns, load(ns))
    ELSE VocabOutcome(graph, mtime_map, disk, terms_by_ns, FALSE,
                      TermsGet(terms_by_ns, ns), {})

(***************************************************************************)
(* completer.py: the declared prefixes of a buffer                         *)
(***************************************************************************)
MAX_LINE_SCAN == 80

IsWordChar(c) == c \in Letters \cup Digits \cup {"_"}
IsSpace(c) == c \in Whitespace

\* The character at position k (from 1) of line, "" past its end
CharAt(line, k) == IF k >= 1 /\ k <= Len(line) THEN line[k] ELSE ""

\* Whether the literal lit stands at position k of line
LitAt(line, k, lit) ==
    /\ k + Len(lit) - 1 <= Len(line)
    /\ \A j \in 1..Len(lit) : line[k + j - 1] = lit[j]

\* The first position from k on whose character does not satisfy the class
\* (Len(line) + 1 if there is none); the class is given as a set of
\* characters of the line.
SkipWhile(line, k, class) ==
    IF \E j \in k..Len(line) : line[j] \notin class
    THEN CHOOSE j \in k..Len(line) : line[j] \notin class /\ \A i \in k..(j - 1) : line[i] \in class
    ELSE Len(line) + 1

LineSpaces(line) == {line[j] : j \in {i \in 1..Len(line) : IsSpace(line[i])}}
LineWordChars(line) == {line[j] : j \in {i \in 1..Len(line) : IsWordChar(line[i])}}

NoMatch == [ok |-> FALSE, pfx |-> <<>>, ns |-> <<>>, end |-> 0]

\* The first of a set of positions
First(positions) == CHOOSE j \in positions : \A i \in positions : j <= i

\* (.+?)[>"'] after the opening character at q3: at least one character,
\* up to the first closing character
MatchNs(line, pfx, q3, closers) ==
    IF CharAt(line, q3) \in {"<", "\"", "'"} /\ closers # {}
    THEN [ok |-> TRUE, pfx |-> pfx, ns |-> SubSeq(line, q3 + 1, First(closers) - 1),
          end |-> First(closers) + 1]
    ELSE NoMatch

\* \s*[<"'](.+?)[>"'] from position q3 of line
MatchOpen(line, pfx, q3) ==
    MatchNs(line, pfx, q3, {j \in (q3 + 2)..Len(line) : line[j] \in {">", "\"", "'"}})

\* "?[:=]\s*[<"'](.+?)[>"'] from position q1 of line, q2 being the position
\* after the optional quote
MatchSeparator(line, pfx, q2) ==
    IF CharAt(line, q2) \in {":", "="}
    THEN MatchOpen(line, pfx, SkipWhile(line, q2 + 1, LineSpaces(line)))
    ELSE NoMatch

\* (\w*)"?[:=]... from position p of line, the word ending before q1
MatchWord(line, p, q1) ==
    MatchSeparator(line, SubSeq(line, p, q1 - 1),
                   IF CharAt(line, q1) = "\"" THEN q1 + 1 ELSE q1)

\* (?:@vocab|(\w*))"?[:=]\s*[<"'](.+?)[>"'] from position p of line
MatchBinding(line, p) ==
    IF LitAt(line, p, <<"@", "v", "o", "c", "a", "b">>)
    THEN MatchSeparator(line, <<>>, IF CharAt(line, p + 6) = "\"" THEN p + 7 ELSE p + 6)
    ELSE MatchWord(line, p, SkipWhile(line, p, LineWordChars(line)))

\* keyword\s+ at position k: the position after the whitespace, 0 if it
\* does not match
KeywordSpaces(line, k, kw) ==
    IF LitAt(line, k, kw) /\ IsSpace(CharAt(line, k + Len(kw)))
    THEN SkipWhile(line, k + Len(kw), LineSpaces(line))
    ELSE 0

\* The position after the first group of MATCH_NS_DECL at position k of
\* line, 0 if no alternative matches.  The alternatives start with different
\* characters, so at most one of them matches; xmlns:? first takes the colon
\* and gives it back if the rest fails.
DeclStart(line, k) ==
    CASE KeywordSpaces(line, k, <<"@", "p", "r", "e", "f", "i", "x">>) # 0 ->
            KeywordSpaces(line, k, <<"@", "p", "r", "e", "f", "i", "x">>)
      [] KeywordSpaces(line, k, <<"p", "r", "e", "f", "i", "x">>) # 0 ->
            KeywordSpaces(line, k, <<"p", "r", "e", "f", "i", "x">>)
      [] KeywordSpaces(line, k, <<"P", "R", "E", "F", "I", "X">>) # 0 ->
            KeywordSpaces(line, k, <<"P", "R", "E", "F", "I", "X">>)
      [] LitAt(line, k, <<"x", "m", "l", "n", "s">>) ->
            IF CharAt(line, k + 5) = ":" /\ MatchBinding(line, k + 6).ok
            THEN k + 6 ELSE k + 5
      [] LitAt(line, k, <<"v", "o", "c", "a", "b">>) -> k + 5
      [] CharAt(line, k) = "\"" -> k + 1
      [] OTHER -> 0

\* MATCH_NS_DECL.match at position k of line
MatchFrom(line, start) == IF start = 0 THEN NoMatch ELSE MatchBinding(line, start)
MatchAt(line, k) == MatchFrom(line, DeclStart(line, k))

RECURSIVE FindAllFrom(_, _)
\* The matches from position k on, m being the match at k: after a match the
\* scan goes on behind it, else at the next position
FindAllNext(line, k, m) ==
    IF m.ok THEN <<(<<m.pfx, m.ns>>)>> \o FindAllFrom(line, m.end)
    ELSE FindAllFrom(line, k + 1)

FindAllFrom(line, k) ==
    IF k > Len(line) THEN <<>> ELSE FindAllNext(line, k, MatchAt(line, k))

\* get_pfxns(line): MATCH_NS_DECL.findall(line), the (prefix, namespace)
\* pairs of the matches from left to right
get_pfxns(line) == FindAllFrom(line, 1)

RECURSIVE Flatten(_)
Flatten(seqs) == IF seqs = <<>> THEN <<>> ELSE Head(seqs) \o Flatten(Tail(seqs))

\* The pairs of all the lines of buffer, as a scan without the slice of
\* line 28 would give them
ScannedPairsOfAllLines(buffer) ==
    Flatten([k \in 1..Len(buffer) |-> get_pfxns(buffer[k])])

\* The pairs of the lines of buffer[:MAX_LINE_SCAN], in order
ScannedPairs(buffer) ==
    Flatten([k \in 1..Min(Len(buffer), MAX_LINE_SCAN) |-> get_pfxns(buffer[k])])

\* dict(pairs): the last pair of a key gives its value
LastOf(pairs, key) ==
    CHOOSE k \in 1..Len(pairs) :
        /\ pairs[k][1] = key
        /\ \A j \in (k + 1)..Len(pairs) : pairs[j][1] # key

dict(pairs) ==
    [key \in {pairs[k][1] : k \in 1..Len(pairs)} |-> pairs[LastOf(pairs, key)][2]]

\* get_pfxns_map(buffer): a dict built from the pairs
get_pfxns_map(buffer) == dict(ScannedPairs(buffer))

(***************************************************************************)
(* completer.py: completions                                               *)
(***************************************************************************)
\* The characters of the model in code point order
CodePoints ==
    <<"\t", " ", "\"", "#", "'", "-", ".", "/", "0", "1", "2", "3", "4", "5", "6", "7",
      "8", "9", ":", "<", "=", ">", "@", "A", "B", "C", "D", "E", "F", "G", "H", "I",
      "J", "K", "L", "M", "N", "O", "P", "Q", "R", "S", "T", "U", "V", "W", "X", "Y",
      "Z", "_", "a", "b", "c", "d", "e", "f", "g", "h", "i", "j", "k", "l", "m", "n",
      "o", "p", "q", "r", "s", "t", "u", "v", "w", "x", "y", "z">>
ord(c) == CHOOSE k \in 1..Len(CodePoints) : CodePoints[k] = c

\* a < b for Python strings
StrLess(a, b) ==
    \E k \in 1..(Min(Len(a), Len(b)) + 1) :
        /\ \A j \in 1..(k - 1) : a[j] = b[j]
        /\ IF k > Len(a) THEN k <= Len(b)
           ELSE k <= Len(b) /\ ord(a[k]) < ord(b[k])

RECURSIVE sorted(_)
\* sorted(S) for a set of strings
sorted(S) ==
    IF S = {} THEN <<>>
    ELSE LET least == CHOOSE x \in S : \A y \in S \ {x} : StrLess(x, y)
         IN  <<least>> \o sorted(S \ {least})

\* The order in which a dict filled from a set is iterated: some order
RECURSIVE Enumerate(_)
Enumerate(S) ==
    IF S = {} THEN <<>>
    ELSE LET x == CHOOSE y \in S : TRUE IN <<x>> \o Enumerate(S \ {x})

RECURSIVE Filter(_, _)
\* [x for x in seq if x.startswith(start)]
Filter(seq, start) ==
    IF seq = <<>> THEN <<>>
    ELSE (IF StartsWith(Head(seq), start) THEN <<Head(seq)>> ELSE <<>>)
         \o Filter(Tail(seq), start)

\* s.split(':')[0]
BeforeColon(s) == IF Contains(s, ":") THEN SubSeq(s, 1, Find(s, ":")) ELSE s

\* s.partition(':')[2]
AfterColon(s) == IF Contains(s, ":") THEN SubSeq(s, Find(s, ":") + 2, Len(s)) ELSE <<>>

\* s.strip()
strip(s) ==
    IF \A k \in 1..Len(s) : IsSpace(s[k]) THEN <<>>
    ELSE LET first == CHOOSE k \in 1..Len(s) : ~IsSpace(s[k]) /\ \A j \in 1..(k - 1) : IsSpace(s[j])
             last == CHOOSE k \in 1..Len(s) : ~IsSpace(s[k]) /\ \A j \in (k + 1)..Len(s) : IsSpace(s[j])
         IN  SubSeq(s, first, last)

FmtPrefix == "%s: <%s>"
FmtXmlns == "%s=\"%s\""
FmtNone == "None"

\* pfx_fmt as it would be without the strip() of line 73
pfx_fmt_unstripped(line) ==
    IF \/ StartsWith(BeforeColon(line), <<"P", "R", "E", "F", "I", "X">>)
       \/ StartsWith(BeforeColon(line), <<"p", "r", "e", "f", "i", "x">>)
       \/ StartsWith(BeforeColon(line), <<"@", "p", "r", "e", "f", "i", "x">>)
    THEN FmtPrefix
    ELSE IF BeforeColon(line) = <<"x", "m", "l", "n", "s">> THEN FmtXmlns
    ELSE FmtNone

\* pfx_fmt of get_completions (lines 73-80)
pfx_fmt_of(line) ==
    LET prefixdecl == strip(BeforeColon(line))
    IN  IF \/ StartsWith(prefixdecl, <<"P", "R", "E", "F", "I", "X">>)
           \/ StartsWith(prefixdecl, <<"p", "r", "e", "f", "i", "x">>)
           \/ StartsWith(prefixdecl, <<"@", "p", "r", "e", "f", "i", "x">>)
        THEN FmtPrefix
        ELSE IF prefixdecl = <<"x", "m", "l", "n", "s">> THEN FmtXmlns
        ELSE FmtNone

\* pfx_fmt % (pfx, ns)
Format(fmt, pfx, ns) ==
    IF fmt = FmtPrefix THEN pfx \o <<":", " ", "<">> \o ns \o <<">">>
    ELSE pfx \o <<"=", "\"">> \o ns \o <<"\"">>

\* The keyword table of keywords.py, by language: the module is not among
\* the sources, so this is a table with the Turtle keywords only
LANG_KEYWORDS ==
    [lang \in {"turtle"} |-> << <<"a">>, <<"@", "b", "a", "s", "e">>, <<"@", "p", "r", "e", "f", "i", "x">> >>]

\* _get_pfx_declarations(pfx_fmt, base): the bindings of the registry whose
\* prefix starts with base, formatted
RECURSIVE PfxDeclarations(_, _, _)
PfxDeclarations(fmt, base, bindings) ==
    IF bindings = <<>> THEN <<>>
    ELSE (IF StartsWith(Head(bindings)[1], base)
          THEN <<Format(fmt, Head(bindings)[1], Head(bindings)[2])>>
          ELSE <<>>) \o PfxDeclarations(fmt, base, Tail(bindings))

CompOutcome(g, m, d, index, t, f, raised, ret, ev, fmt, term) ==
    [graph |-> g, mtime_map |-> m, disk |-> d, terms_by_ns |-> index,
     pfxgraph |-> t, prefix_file |-> f, raised |-> raised, ret |-> ret,
     events |-> ev, pfx_fmt |-> fmt, term |-> term]

\* Lines 85-86: the completion made of the namespace that lookup found
Looked(fmt, term, found) ==
    CompOutcome(graph, mtime_map, disk, terms_by_ns, found.pfxgraph,
                found.prefix_file, found.raised,
                IF Truthy(found.ret) /\ ~found.raised
                THEN << <<" ", "<">> \o found.ret \o <<">">> >> ELSE <<>>,
                found.events, fmt, term)

\* The branch of get_completions for a prefix declaration (lines 84-88)
DeclCompletions(fmt, term, trail, up) ==
    IF EndsWith(term, <<":">>)
    THEN Looked(fmt, term, lookup(SubSeq(term, 1, Len(term) - 1), up))
    ELSE CompOutcome(graph, mtime_map, disk, terms_by_ns, pfxgraph, prefix_file, FALSE,
                     PfxDeclarations(fmt, trail, pfxgraph), {}, fmt, term)

\* pfx + ':' for the sorted prefixes
WithColon(seq) == [k \in 1..Len(seq) |-> seq[k] \o <<":">>]

\* LANG_KEYWORDS.get(lang, [])
Keywords(lang) == IF lang \in DOMAIN LANG_KEYWORDS THEN LANG_KEYWORDS[lang] ELSE <<>>

\* pfxns.get(pfx)
Get(pfxns, pfx) == IF pfx \in DOMAIN pfxns THEN pfxns[pfx] ELSE None

\* Lines 95-106: the labels for the terms of the namespace
Labels(pfxns, terms, term, trail, lang) ==
    IF Contains(term, ":")
    THEN sorted({key \in terms : StartsWith(key, trail)})
    ELSE Filter(WithColon(sorted(DOMAIN pfxns)) \o Enumerate(terms) \o Keywords(lang), trail)

\* Line 93: terms = self.get_vocab_terms(ns) or {}
Listed(pfxns, found, term, trail, lang) ==
    CompOutcome(found.graph, found.mtime_map, found.disk, found.terms_by_ns,
                pfxgraph, prefix_file, found.raised,
                IF found.raised THEN <<>>
                ELSE Labels(pfxns, IF found.ret.some THEN found.ret.terms ELSE {},
                            term, trail, lang),
                found.events, FmtNone, term)

\* Lines 91-92, pfxns being the declared prefixes of the buffer
Resolved(pfxns, term, pfx, trail, lang) ==
    Listed(pfxns, get_vocab_terms(Get(pfxns, pfx)), term, trail, lang)

\* The branch of get_completions for a term (lines 90-106)
TermCompletions(buffer, term, pfx, trail, lang) ==
    Resolved(get_pfxns_map(buffer), term, pfx, trail, lang)

\* Lines 70-106 of get_completions, term being the token at the cursor and
\* fmt the format of the declaration the line begins, if it begins one
Completed(buffer, term, fmt, lang, up) ==
    IF term = None
    THEN CompOutcome(graph, mtime_map, disk, terms_by_ns, pfxgraph, prefix_file,
                     TRUE, <<>>, {}, fmt, term)
    ELSE IF fmt # FmtNone THEN DeclCompletions(fmt, term, AfterColon(term), up)
    ELSE TermCompletions(buffer, term, BeforeColon(term), AfterColon(term), lang)

\* RdfCompleter.get_completions(buffer, line, col, lang), the prefix service
\* being up or not: the labels of the completions.
get_completions(buffer, line, col, lang, up) ==
    Completed(buffer, get_term_at(line, col - 1), pfx_fmt_of(line), lang, up)

(***************************************************************************)
(* completer.py: the definition of a term                                  *)
(***************************************************************************)
RECURSIVE AddPrefixes(_, _)
\* Lines 149-151 of find_term_definition: the first prefix declared for a
\* namespace is kept
AddPrefixes(prefixes, pairs) ==
    IF pairs = <<>> THEN prefixes
    ELSE AddPrefixes(IF Head(pairs)[2] \in DOMAIN prefixes THEN prefixes
                     ELSE Put(prefixes, Head(pairs)[2], Head(pairs)[1]),
                     Tail(pairs))

\* Lines 153-154: the term as the document is expected to write it
defterm(prefixes, ns, lname) ==
    IF ns \in DOMAIN prefixes THEN prefixes[ns] \o <<":">> \o lname
    ELSE <<"<">> \o ns \o lname \o <<">">>

\* \b behind the first n characters of l: one of the characters on the two
\* sides is a word character, the other is not (or is the end of the line)
WordBoundary(l, n) == IsWordChar(CharAt(l, n)) # IsWordChar(CharAt(l, n + 1))

\* re.search(fr"^{re.escape(defterm)}\b", l) finds a match
SearchDefterm(l, term) == StartsWith(l, term) /\ WordBoundary(l, Len(term))

RECURSIVE FindDefinition(_, _, _, _, _)
\* Lines 153-159, prefixes being those collected up to the line at_line
FoundOrNext(lines, at_line, prefixes, ns, lname) ==
    IF SearchDefterm(lines[at_line + 1], defterm(prefixes, ns, lname))
    THEN <<at_line, 0>>
    ELSE FindDefinition(lines, at_line + 1, prefixes, ns, lname)

\* The loop of lines 147-162 from the line at_line (a Python index) on: at
\* its end without a match the answer is line 0, column 0
FindDefinition(lines, at_line, prefixes, ns, lname) ==
    IF at_line >= Len(lines) THEN <<0, 0>>
    ELSE FoundOrNext(lines, at_line,
                     IF at_line < MAX_LINE_SCAN
                     THEN AddPrefixes(prefixes, get_pfxns(lines[at_line + 1]))
                     ELSE prefixes,
                     ns, lname)

\* RdfCompleter.find_term_definition(lines, ns, lname): (at_line, col)
find_term_definition(lines, ns, lname) == FindDefinition(lines, 0, <<>>, ns, lname)

(***************************************************************************)
(* server.py                                                               *)
(***************************************************************************)
\* completions(params): the line of the position, and get_completions on
\* it; nothing is caught on the way out.
completions(buffer, row, col, lang, up) ==
    get_completions(buffer, buffer[row], col, lang, up)

(***************************************************************************)
(* The state after construction, and the environment                       *)
(***************************************************************************)
\* GraphCache.__init__, in a cache directory that holds no file yet
InitGraphCache ==
    /\ graph = [c \in {getPublicId(u) : u \in Urls \cup WebSources} |-> {}]
    /\ mtime_map = <<>>
    /\ disk = [u \in Urls |-> NoFile]

InitEnv ==
    /\ files \in [LocalFiles -> [mtime : {1}, doc : FileDocs(LocalPath)]]
    /\ web \in {w \in [WebSources -> UNION {WebDocs(x) : x \in WebSources}] :
                  \A x \in WebSources : w[x] \in WebDocs(x)}

Called(o, r, ev) ==
    /\ op' = o
    /\ result' = r
    /\ events' = ev
    /\ tick' = IF o.name = "load" THEN 1 - tick ELSE tick

\* A call of GraphCache.load(url)
Load(url) ==
    LET out == load(url)
    IN  /\ graph' = out.graph
        /\ mtime_map' = out.mtime_map
        /\ disk' = out.disk
        /\ Called([name |-> "load", url |-> url],
                  [raised |-> out.raised, value |-> out.ret], out.events)
        /\ UNCHANGED <<files, web, pfxgraph, prefix_file, terms_by_ns>>

\* The file is written again: its mtime moves forward, its content may change.
Touch(f) ==
    /\ files[f].mtime < MaxMtime
    /\ \E doc \in FileDocs(f) :
          files' = [files EXCEPT ![f] = [mtime |-> files[f].mtime + 1, doc |-> doc]]
    /\ Called([name |-> "touch", file |-> f], [raised |-> FALSE], {})
    /\ UNCHANGED <<graph, mtime_map, disk, web, pfxgraph, prefix_file, terms_by_ns>>

\* A source on the network changes, or becomes (un)reachable.
WebChange(x) ==
    /\ \E doc \in WebDocs(x) :
          /\ doc # web[x]
          /\ web' = [web EXCEPT ![x] = doc]
    /\ Called([name |-> "web", source |-> x], [raised |-> FALSE], {})
    /\ UNCHANGED <<graph, mtime_map, disk, files, pfxgraph, prefix_file, terms_by_ns>>

\* RdfCompleter.__init__ and the server's start, in an empty cache directory
InitCompleter ==
    /\ InitGraphCache
    /\ prefix_file = NoPrefixFile
    /\ pfxgraph = InitPfxgraph(NoPrefixFile)
    /\ terms_by_ns = <<>>
    /\ op = [name |-> "init"]
    /\ result = [raised |-> FALSE]
    /\ events = {}
    /\ tick = 0

\* One document in every source
InitEnvFixed ==
    /\ files = [f \in LocalFiles |-> [mtime |-> 1, doc |-> FullDoc(f)]]
    /\ web = [x \in WebSources |-> FullDoc(NsOfSource(x))]

\* A call of RdfCompleter.get_vocab_terms(ns)
GetVocabTerms(ns) ==
    LET out == get_vocab_terms(ns)
    IN  /\ graph' = out.graph
        /\ mtime_map' = out.mtime_map
        /\ disk' = out.disk
        /\ terms_by_ns' = out.terms_by_ns
        /\ Called([name |-> "get_vocab_terms", ns |-> ns],
                  [raised |-> out.raised, value |-> out.ret], out.events)
        /\ UNCHANGED <<files, web, pfxgraph, prefix_file>>

\* A call of PrefixCache.lookup(pfx)
Lookup(pfx) ==
    \E up \in BOOLEAN :
        LET out == lookup(pfx, up)
        IN  /\ pfxgraph' = out.pfxgraph
            /\ prefix_file' = out.prefix_file
            /\ Called([name |-> "lookup", pfx |-> pfx, up |-> up],
                      [raised |-> out.raised, value |-> out.ret], out.events)
            /\ UNCHANGED <<graph, mtime_map, disk, files, web, terms_by_ns>>

\* A completion request of the editor
Completions(buffer, row, col, lang) ==
    \E up \in BOOLEAN :
        \E out \in {completions(buffer, row, col, lang, up)} :
            /\ graph' = out.graph
            /\ mtime_map' = out.mtime_map
            /\ disk' = out.disk
            /\ terms_by_ns' = out.terms_by_ns
            /\ pfxgraph' = out.pfxgraph
            /\ prefix_file' = out.prefix_file
            /\ Called([name |-> "completions", buffer |-> buffer, row |-> row,
                       col |-> col, lang |-> lang],
                      [raised |-> out.raised, value |-> out.ret, pfx_fmt |-> out.pfx_fmt,
                       term |-> out.term], out.events)
            /\ UNCHANGED <<files, web>>

\* A call of get_term_at(line, i), on the line under scrutiny
GetTermAt(line, i) ==
    /\ op.name \in {"line", "get_term_at"}
    /\ line = op.line
    /\ Called([name |-> "get_term_at", line |-> line, i |-> i],
              [raised |-> FALSE, value |-> get_term_at(line, i)], {})
    /\ UNCHANGED <<graph, mtime_map, disk, files, web, pfxgraph, prefix_file, terms_by_ns>>

\* The server is started again: the state in memory is built anew, the
\* cache directory and the prefix file are as they were left.
Restart ==
    /\ graph' = [c \in DOMAIN graph |-> {}]
    /\ mtime_map' = <<>>
    /\ terms_by_ns' = <<>>
    /\ pfxgraph' = InitPfxgraph(prefix_file)
    /\ Called([name |-> "init"], [raised |-> FALSE], {})
    /\ UNCHANGED <<disk, files, web, prefix_file>>

\* A call of get_pfxns_map(buffer), on the buffer under scrutiny
GetPfxnsMap(buffer) ==
    /\ op.name \in {"buffer", "get_pfxns_map"}
    /\ buffer = op.buffer
    /\ Called([name |-> "get_pfxns_map", buffer |-> buffer],
              [raised |-> FALSE, value |-> get_pfxns_map(buffer)], {})
    /\ UNCHANGED <<graph, mtime_map, disk, files, web, pfxgraph, prefix_file, terms_by_ns>>

\* A call of find_term_definition(lines, ns, lname), on the document under
\* scrutiny
FindTermDefinition(lines, ns, lname) ==
    /\ op.name \in {"document", "find_term_definition"}
    /\ lines = op.lines
    /\ Called([name |-> "find_term_definition", lines |-> lines, ns |-> ns, lname |-> lname],
              [raised |-> FALSE, value |-> find_term_definition(lines, ns, lname)], {})
    /\ UNCHANGED <<graph, mtime_map, disk, files, web, pfxgraph, prefix_file, terms_by_ns>>

(***************************************************************************)
(* The requests of the model                                               *)
(***************************************************************************)
AtPrefixExDecl == <<"@", "p", "r", "e", "f", "i", "x", " ", "e", "x", ":", " ", "<">> \o RemoteUrl \o <<">", " ", ".">>
AtPrefixExOtherDecl == <<"@", "p", "r", "e", "f", "i", "x", " ", "e", "x", ":", " ", "<">> \o OtherNs \o <<">", " ", ".">>
AtPrefixDefaultDecl == <<"@", "p", "r", "e", "f", "i", "x", " ", ":", " ", "<">> \o RemoteUrl \o <<">", " ", ".">>
SparqlExDecl == <<"P", "R", "E", "F", "I", "X", " ", "e", "x", ":", " ", "<">> \o RemoteUrl \o <<">">>
XmlnsDefaultDecl == <<"x", "m", "l", "n", "s", "=", "\"">> \o RemoteUrl \o <<"\"">>

Buffers ==
    { <<AtPrefixExDecl, <<"e", "x", ":", "B", "a">> >>,
      <<SparqlExDecl, <<"e", "x", ":">> >>,
      <<AtPrefixDefaultDecl, <<"B", "a">> >>,
      <<AtPrefixDefaultDecl, <<"a", " ">> >>,
      <<AtPrefixExDecl, <<"e", "x">> >>,
      <<<<"@", "p", "r", "e", "f", "i", "x", " ", "e", "x", ":">>, <<"x", "m", "l", "n", "s", ":", "e">> >>,
      <<XmlnsDefaultDecl, <<"p", "r", "e", "f", "i", "x", "e", "s", ":", "x">> >>,
      <<AtPrefixExDecl, <<" ", "P", "R", "E", "F", "I", "X", " ", "z", "z", ":">> >> }

Langs == {"turtle", "xml"}

\* The cursor is at the end of its line.
Cols(line) == {Len(line)}

\* The lines get_term_at is probed on: every string of these characters up
\* to this length
ScanChars == {"a", "Z", "0", ":", "-", "_", " ", "<"}
MaxLineLen == 3
ScanLines == UNION {[1..n -> ScanChars] : n \in 0..MaxLineLen}

\* The line of the doctest of get_term_at
DoctestLine == <<"s", "o", "m", "e", " ", "r", "d", "f", ":", "t", "e", "r", "m", " ", "h", "e", "r", "e">>

(***************************************************************************)
(* The specifications                                                      *)
(***************************************************************************)
\* The completer: completion requests, and the vocabulary on the network
\* changing
Init ==
    /\ InitCompleter
    /\ files = [f \in LocalFiles |-> [mtime |-> 1, doc |-> FullDoc(f)]]
    /\ web \in {w \in [WebSources -> UNION {WebDocs(x) : x \in WebSources}] :
                  /\ w[RemoteUrl] \in WebDocs(RemoteUrl)
                  /\ w[SchemaSrc] = FullDoc(SchemaUrl)}

Next ==
    \/ \E buffer \in Buffers, lang \in Langs :
          \E row \in 1..Len(buffer) : \E col \in Cols(buffer[row]) :
              Completions(buffer, row, col, lang)
    \/ WebChange(RemoteUrl)

Spec == Init /\ [][Next]_vars

\* The vocabulary cache alone, with its sources changing
InitCache == InitCompleter /\ InitEnv

NextCache ==
    \/ \E url \in Urls : Load(url)
    \/ \E f \in LocalFiles : Touch(f)
    \/ \E x \in WebSources : WebChange(x)
    \/ Restart

SpecCache == InitCache /\ [][NextCache]_vars

\* The term index alone
InitIndex == InitCompleter /\ InitEnv

NextIndex ==
    \/ \E ns \in Urls \cup {None, <<>>} : GetVocabTerms(ns)
    \/ \E f \in LocalFiles : Touch(f)
    \/ \E x \in WebSources : WebChange(x)
    \/ Restart

SpecIndex == InitIndex /\ [][NextIndex]_vars

\* The prefix registry alone
InitPrefix == InitCompleter /\ InitEnvFixed

NextPrefix ==
    \/ \E pfx \in Prefixes : Lookup(pfx)
    \/ Restart

SpecPrefix == InitPrefix /\ [][NextPrefix]_vars

\* The token scanner alone
InitScan ==
    /\ InitGraphCache
    /\ InitEnvFixed
    /\ prefix_file = NoPrefixFile
    /\ pfxgraph = InitPfxgraph(NoPrefixFile)
    /\ terms_by_ns = <<>>
    /\ op \in {[name |-> "line", line |-> line] : line \in ScanLines \cup {DoctestLine}}
    /\ result = [raised |-> FALSE]
    /\ events = {}
    /\ tick = 0

NextScan == \E i \in 0..Len(op.line) : GetTermAt(op.line, i)

SpecScan == InitScan /\ [][NextScan]_vars

\* The definition locator alone, on the documents made of these lines up to
\* this length
DocLines ==
    { AtPrefixExDecl,
      <<"e", "x", ":", "B", "a", "r", " ", "a", " ", "e", "x", ":", "C", " ", ".">>,
      <<"e", "x", ":", "B", "a", "r", "l", "e", "y", " ", "a", " ", "e", "x", ":", "C", " ", ".">>,
      <<"<">> \o RemoteUrl \o <<"B", "a", "r", ">", " ", "a", " ", "<">> \o RemoteUrl \o <<"C", ">", " ", ".">>,
      <<"<">> \o RemoteUrl \o <<"B", "a", "r", ">", "x">>,
      <<"#", " ", "c">> }
MaxDocLen == 3
Documents == UNION {[1..n -> DocLines] : n \in 0..MaxDocLen}

InitDefinition ==
    /\ InitGraphCache
    /\ InitEnvFixed
    /\ prefix_file = NoPrefixFile
    /\ pfxgraph = InitPfxgraph(NoPrefixFile)
    /\ terms_by_ns = <<>>
    /\ op \in {[name |-> "document", lines |-> lines] : lines \in Documents}
    /\ result = [raised |-> FALSE]
    /\ events = {}
    /\ tick = 0

NextDefinition ==
    \E ns \in {RemoteUrl, OtherNs}, lname \in {Bar, <<"C">>} :
        FindTermDefinition(op.lines, ns, lname)

SpecDefinition == InitDefinition /\ [][NextDefinition]_vars

\* The scanner of prefix declarations alone, on buffers that begin and end
\* with up to MaxDecls declarations and have no, or about MAX_LINE_SCAN,
\* empty lines in between
WindowDecls ==
    { AtPrefixExDecl,
      AtPrefixExOtherDecl,
      AtPrefixDefaultDecl }
MaxDecls == 2
WindowBuffers ==
    { head \o [k \in 1..n |-> <<>>] \o tail :
        head \in UNION {[1..d -> WindowDecls] : d \in 0..MaxDecls},
        tail \in UNION {[1..d -> WindowDecls] : d \in 1..MaxDecls},
        n \in {0} \cup ((MAX_LINE_SCAN - MaxDecls)..MAX_LINE_SCAN) }

InitWindow ==
    /\ InitGraphCache
    /\ InitEnvFixed
    /\ prefix_file = NoPrefixFile
    /\ pfxgraph = InitPfxgraph(NoPrefixFile)
    /\ terms_by_ns = <<>>
    /\ op \in {[name |-> "buffer", buffer |-> buffer] : buffer \in WindowBuffers}
    /\ result = [raised |-> FALSE]
    /\ events = {}
    /\ tick = 0

NextWindow == GetPfxnsMap(op.buffer)

SpecWindow == InitWindow /\ [][NextWindow]_vars

(***************************************************************************)
(* Properties of the vocabulary cache (under SpecCache)                    *)
(***************************************************************************)
\* Two loads of the same identifier in a row, the first of which returned:
\* nothing happened in between, so the source and the disk are as the first
\* load left them.
LoadedAgain ==
    /\ op.name = "load"
    /\ ~result.raised
    /\ op'.name = "load"
    /\ op'.url = op.url
    /\ tick' # tick

\* C1: a load of a local file right after a load of it that returned, the
\* file not having changed, returns the same content and does not parse the
\* file again, whatever the file holds.
C1_UnchangedFileIsNotParsedAgain ==
    [][(LoadedAgain /\ op.url \in LocalFiles)
          => (~ParsedSource(events') /\ ~result'.raised /\ result'.value = result.value)]_vars

\* C5: a load whose fetch fails (the source cannot be opened, or does not
\* parse) raises and leaves the store, the recorded mtimes and the cache
\* files as they were.
C5_FailedFetchLeavesNoTrace ==
    [][(/\ op'.name = "load"
        /\ tick' # tick
        /\ "fetch" \in events'
        /\ SourceDoc(Source(op'.url)).status # "ok")
          => (result'.raised /\ graph' = graph /\ disk' = disk /\ mtime_map' = mtime_map)]_vars

\* C6: a second load right after a load that returned gives the same triples
\* and leaves the contexts of the store, the recorded mtimes and the cache
\* files as the first load left them.
C6_SecondLoadChangesNothing ==
    [][LoadedAgain
          => (/\ ~result'.raised
              /\ result'.value = result.value
              /\ graph' = graph
              /\ mtime_map' = mtime_map
              /\ disk' = disk)]_vars

\* C13: the store has one context per identifier, and the context of a
\* local file holds exactly the triples of the version parsed last: once
\* the present version of the file has been parsed without error, its
\* context holds the triples of that version and no other.
C13_ContextHoldsParsedVersion ==
    \A f \in LocalFiles :
        (/\ f \in DOMAIN mtime_map
         /\ mtime_map[f] = files[f].mtime
         /\ files[f].doc.status = "ok")
            => graph[getPublicId(f)] = files[f].doc.triples

\* A later version of the file, without triples, has been parsed
C13_ReparsedToEmpty ==
    /\ op.name = "load"
    /\ op.url = LocalPath
    /\ "parse_file" \in events
    /\ ~result.raised
    /\ files[LocalPath].mtime > 1
    /\ graph[getPublicId(LocalPath)] = {}

\* C14: a load that parsed its source and returned leaves, at the cache
\* path of the identifier, a file that holds the triples just parsed; this
\* holds for a fetch and for the parse of a local file alike.
C14_ParsedSourceIsCached ==
    (op.name = "load" /\ ~result.raised /\ ParsedSource(events))
        => /\ disk[op.url].exists
           /\ disk[op.url].triples = result.value

\* C15: a load of an identifier that is not a local file goes to the
\* network only if the store has no triple in the identifier's context and
\* no non-empty cache file is at its cache path, and reads the cache file
\* only if the context is empty; if the context has triples the load
\* returns them and leaves the store and the cache files as they are,
\* reading neither the disk nor the network.
C15_LayersInOrder ==
    [][(op'.name = "load" /\ tick' # tick /\ ~isfile(op'.url))
          => /\ "fetch" \in events'
                   => /\ graph[op'.url] = {}
                      /\ ~(disk[op'.url].exists /\ st_size(disk[op'.url]) > 0)
             /\ "read_cache" \in events' => graph[op'.url] = {}
             /\ graph[op'.url] # {}
                   => /\ events' = {"context"}
                      /\ ~result'.raised
                      /\ result'.value = graph[op'.url]
                      /\ graph' = graph
                      /\ disk' = disk]_vars

\* A remote vocabulary is answered from its context although the network has
\* something else by now
C15_AnsweredFromContext ==
    /\ op.name = "load"
    /\ op.url = RemoteUrl
    /\ events = {"context"}
    /\ result.value = FullDoc(RemoteUrl).triples
    /\ web[RemoteUrl] # FullDoc(RemoteUrl)

\* C18: if the load of a local file failed while parsing it, the next load
\* of the file, its mtime being the same, parses the file again: the file
\* does not count as up to date and the load is not answered from the old
\* context or from a cache file.  A second reading of the file by line 88
\* counts as a parse here.
C18_FailedParseIsTriedAgain ==
    [][(/\ op.name = "load"
        /\ op.url \in LocalFiles
        /\ result.raised
        /\ "parse_file" \in events
        /\ op'.name = "load"
        /\ op'.url = op.url
        /\ tick' # tick)
          => ParsedSource(events')]_vars

\* A cache file with triples is at the cache path of url
CachedWithTriples(url) == disk[url].exists /\ disk[url].triples # {}

\* C20: a remote identifier is fetched at most once: a load that fetched it
\* and returned at least one triple leaves a cache file with triples, such a
\* file stays, and no load of the identifier fetches while it is there,
\* neither in the same session nor in a later one, also when the identifier
\* is redirected through VOCAB_SOURCE_MAP.
C20_FetchedOnce ==
    [][\A url \in Urls \ LocalFiles :
          /\ (/\ op'.name = "load"
              /\ op'.url = url
              /\ tick' # tick
              /\ "fetch" \in events'
              /\ ~result'.raised
              /\ result'.value # {}) => CachedWithTriples(url)'
          /\ CachedWithTriples(url) => CachedWithTriples(url)'
          /\ (/\ CachedWithTriples(url)
              /\ op'.name = "load"
              /\ op'.url = url
              /\ tick' # tick) => "fetch" \notin events']_vars

\* The redirected vocabulary, fetched in this session into the context of
\* its source, is loaded again and read from its cache file, while the
\* network has nothing to give
C20_RedirectedNotFetchedAgain ==
    /\ op.name = "load"
    /\ op.url = SchemaUrl
    /\ "read_cache" \in events
    /\ graph[SchemaSrc] # {}
    /\ web[SchemaSrc].status = "net"

(***************************************************************************)
(* Properties of the term index (under SpecIndex)                          *)
(***************************************************************************)
\* C7: as long as the server is not started again, an entry of the term
\* index stays as it is, and get_vocab_terms for a namespace that has an
\* entry returns it without calling load.
C7_IndexEntryIsBuiltOnce ==
    [][op'.name # "init"
          => \A ns \in DOMAIN terms_by_ns :
                /\ ns \in DOMAIN terms_by_ns'
                /\ terms_by_ns'[ns] = terms_by_ns[ns]
                /\ (op'.name = "get_vocab_terms" /\ op'.ns = ns)
                      => (/\ ~result'.raised
                          /\ result'.value = [some |-> TRUE, terms |-> terms_by_ns[ns]]
                          /\ "load" \notin events')]_vars

\* An empty mapping was built for the remote namespace, the source has
\* terms by now, and a later call still answered with the empty mapping
\* without loading.
C7_EmptyEntryAnsweredAgain ==
    /\ op.name = "get_vocab_terms"
    /\ op.ns = RemoteUrl
    /\ events = {}
    /\ result.value = [some |-> TRUE, terms |-> {}]
    /\ web[RemoteUrl] = FullDoc(RemoteUrl)

\* The index entry of the namespace asked for is the one collected from
\* the cache file of that namespace
IndexOfCacheFile ==
    /\ op.ns \in DOMAIN terms_by_ns
    /\ disk[op.ns].exists
    /\ terms_by_ns[op.ns] = Terms(disk[op.ns].triples, op.ns)

C19_FailureIsNotIndexed ==
    /\ [](op.name = "get_vocab_terms" /\ result.raised
            => op.ns \notin DOMAIN terms_by_ns)
    /\ [][/\ (/\ op.name = "get_vocab_terms"
               /\ result.raised
               /\ op'.name = "get_vocab_terms"
               /\ op'.ns = op.ns) => "load" \in events'
          /\ \A ns \in DOMAIN terms_by_ns' \ DOMAIN terms_by_ns :
                 /\ op'.name = "get_vocab_terms"
                 /\ op'.ns = ns
                 /\ ~result'.raised
                 /\ "load" \in events']_vars

\* The terms of an unreachable vocabulary were asked for, another vocabulary
\* being indexed
C19_FailedAndNotIndexed ==
    /\ op.name = "get_vocab_terms"
    /\ op.ns = RemoteUrl
    /\ result.raised
    /\ "load" \in events
    /\ DOMAIN terms_by_ns = {SchemaUrl}

(***************************************************************************)
(* Properties of the prefix registry (under SpecPrefix)                    *)
(***************************************************************************)
\* C3: a lookup of a prefix that is not in the table and whose fetch fails
\* returns no namespace, does not raise, and leaves every binding of the
\* table resolvable as before.
C3_FailedLookupIsHarmless ==
    [][(/\ op'.name = "lookup"
        /\ ~Truthy(namespace(pfxgraph, op'.pfx))
        /\ PrefixAnswer(op'.pfx, op'.up).status = "fail")
          => (/\ ~result'.raised
              /\ result'.value = None
              /\ \A k \in 1..Len(pfxgraph) :
                    namespace(pfxgraph', pfxgraph[k][1]) = pfxgraph[k][2])]_vars

\* C8: after a lookup that resolved a missing prefix through the network,
\* the prefix file holds exactly the bindings of the table that are not to
\* the XML namespace, each once.
C8_PrefixFileIsSnapshot ==
    (op.name = "lookup" /\ "prefix_fetch" \in events /\ "prefix_fetch_failed" \notin events)
        => /\ prefix_file.exists
           /\ {prefix_file.bindings[k] : k \in 1..Len(prefix_file.bindings)}
                 = {pfxgraph[k] : k \in {j \in 1..Len(pfxgraph) : pfxgraph[j][2] # XMLNS}}
           /\ \A j, k \in 1..Len(prefix_file.bindings) :
                 prefix_file.bindings[j] = prefix_file.bindings[k] => j = k

\* A lookup fetched the binding of ex: the table holds the default bindings
\* and that of ex, the file all of them but that of xml.
C8_FetchedBindingSaved ==
    /\ op.name = "lookup"
    /\ op.pfx = PfxEx
    /\ "prefix_fetch" \in events
    /\ result.value = RemoteUrl
    /\ namespace(pfxgraph, PfxXml) = XMLNS
    /\ prefix_file.bindings = << <<PfxRdf, RDFNS>>, <<PfxEx, RemoteUrl>> >>

(***************************************************************************)
(* Properties of the token scanner (under SpecScan)                        *)
(***************************************************************************)
\* The maximal run of term characters of line around position k (from 1)
RunStart(line, k) ==
    CHOOSE a \in 1..k :
        /\ \A j \in a..k : IsTermChar(line[j])
        /\ a > 1 => ~IsTermChar(line[a - 1])
RunEnd(line, k) ==
    CHOOSE b \in k..Len(line) :
        /\ \A j \in k..b : IsTermChar(line[j])
        /\ b < Len(line) => ~IsTermChar(line[b + 1])

\* C4: at an index of the line that holds a term character, get_term_at
\* returns the maximal run of term characters around the index.
C4_TokenIsMaximalRun ==
    (/\ op.name = "get_term_at"
     /\ op.i < Len(op.line)
     /\ IsTermChar(op.line[op.i + 1]))
        => result.value = SubSeq(op.line, RunStart(op.line, op.i + 1),
                                 RunEnd(op.line, op.i + 1))

\* Index 12 of the doctest line, the last character of rdf:term
C4_DoctestToken ==
    /\ op.name = "get_term_at"
    /\ op.line = DoctestLine
    /\ op.i = 12
    /\ result.value = <<"r", "d", "f", ":", "t", "e", "r", "m">>

\* C17: at an index that holds no term character, the end of the line and
\* what lies behind it included, get_term_at returns nothing: no part of a
\* neighbouring token.
C17_NothingOutsideToken ==
    (/\ op.name = "get_term_at"
     /\ (op.i >= Len(op.line) \/ ~IsTermChar(op.line[op.i + 1])))
        => result.value = <<>>

(***************************************************************************)
(* Properties of completion requests (under Spec)                          *)
(***************************************************************************)
\* The vocabulary terms of the fixture
VocabularyNames == {Bar, Baz, Lab}

\* C2: a request in term mode whose load fails ends with a list without
\* vocabulary terms, not with an error.
C2_FailedLoadGivesNoError ==
    (/\ op.name = "completions"
     /\ result.pfx_fmt = FmtNone
     /\ "fetch" \in events
     /\ "write_cache" \notin events)
        => /\ ~result.raised
           /\ \A k \in 1..Len(result.value) : result.value[k] \notin VocabularyNames

Keywords3 == {<<"P", "R", "E", "F", "I", "X">>, <<"p", "r", "e", "f", "i", "x">>,
              <<"@", "p", "r", "e", "f", "i", "x">>}
KeywordXmlns == <<"x", "m", "l", "n", "s">>

\* The line begins with one of the keywords.
BeginsWithKeyword(line) == \E kw \in Keywords3 \cup {KeywordXmlns} : StartsWith(line, kw)

Indent(line) == SkipWhile(line, 1, LineSpaces(line))

\* After its leading whitespace the line goes on with PREFIX, prefix or
\* @prefix, or with xmlns and then nothing but whitespace up to its first
\* ':' or its end.
BeginsDeclaration(line) ==
    \/ \E kw \in Keywords3 : LitAt(line, Indent(line), kw)
    \/ /\ LitAt(line, Indent(line), KeywordXmlns)
       /\ \A k \in (Indent(line) + 5)..Len(line) :
             \/ IsSpace(line[k])
             \/ \E j \in (Indent(line) + 5)..k : line[j] = ":"

DefaultTerms(pfxns) ==
    IF <<>> \in DOMAIN pfxns /\ pfxns[<<>>] \in DOMAIN terms_by_ns
    THEN terms_by_ns[pfxns[<<>>]] ELSE {}

DefaultIndexed(pfxns) == <<>> \in DOMAIN pfxns => pfxns[<<>>] \in DOMAIN terms_by_ns

\* C10: in term mode a token without ':' is answered with the declared
\* prefixes, each with a ':', then the terms of the namespace of the default
\* prefix if one is declared, then the keywords of the language.
C10_BareTokenGetsDefaultTerms ==
    (/\ op.name = "completions"
     /\ result.pfx_fmt = FmtNone
     /\ ~result.raised
     /\ ~Contains(result.term, ":"))
        => /\ DefaultIndexed(get_pfxns_map(op.buffer))
           /\ result.value =
                 WithColon(sorted(DOMAIN get_pfxns_map(op.buffer)))
                    \o Enumerate(DefaultTerms(get_pfxns_map(op.buffer)))
                    \o Keywords(op.lang)

(***************************************************************************)
(* Properties of the scanner of prefix declarations (under SpecWindow)      *)
(***************************************************************************)
\* The first MAX_LINE_SCAN lines of a buffer
Window(buffer) == SubSeq(buffer, 1, Min(Len(buffer), MAX_LINE_SCAN))

\* The declarations of all the lines given, in order
DeclaredIn(lines) == Flatten([k \in 1..Len(lines) |-> get_pfxns(lines[k])])

\* The pair at i is the last of pairs that declares its prefix
IsLastOfPrefix(pairs, i) == \A j \in (i + 1)..Len(pairs) : pairs[j][1] # pairs[i][1]

\* The mapping binds the prefixes of pairs, each to the namespace of the
\* last pair that declares it
BindsLastOfEach(mapping, pairs) ==
    /\ DOMAIN mapping = {pairs[i][1] : i \in 1..Len(pairs)}
    /\ \A i \in 1..Len(pairs) :
          IsLastOfPrefix(pairs, i) => mapping[pairs[i][1]] = pairs[i][2]

\* C16: get_pfxns_map(buffer) depends only on the first 80 lines of the
\* buffer: its prefixes are those declared on these lines, none declared
\* only on a later line, each bound to the namespace of its last declaration
\* on these lines; the mapping being a function of these lines, scanning
\* them again gives the same mapping.
C16_WindowLastDeclarationWins ==
    op.name = "get_pfxns_map"
        => /\ result.value = get_pfxns_map(Window(op.buffer))
           /\ BindsLastOfEach(result.value, DeclaredIn(Window(op.buffer)))

\* A prefix is declared again on the last line of the window, and once more
\* behind the window
C16_RedeclaredAtWindowEnd ==
    /\ op.name = "get_pfxns_map"
    /\ Len(op.buffer) = MAX_LINE_SCAN + 1
    /\ op.buffer[1] = AtPrefixExDecl
    /\ op.buffer[MAX_LINE_SCAN] = AtPrefixExOtherDecl
    /\ op.buffer[MAX_LINE_SCAN + 1] = AtPrefixExDecl
    /\ result.value = (<<"e", "x">> :> OtherNs)

(***************************************************************************)
(* Properties of the definition locator (under SpecDefinition)             *)
(***************************************************************************)
\* The prefixes declared for a namespace up to line k (from 1) of lines
PrefixesUpTo(lines, k) == AddPrefixes(<<>>, ScannedPairs(SubSeq(lines, 1, k)))

\* Line k (from 1) starts with the term as written at that line
StartsWithTerm(lines, k, ns, lname) ==
    StartsWith(lines[k], defterm(PrefixesUpTo(lines, k), ns, lname))

\* Line k starts with the term as a whole token: no word character follows it
StartsWithToken(lines, k, ns, lname) ==
    /\ StartsWithTerm(lines, k, ns, lname)
    /\ ~IsWordChar(CharAt(lines[k], Len(defterm(PrefixesUpTo(lines, k), ns, lname)) + 1))

\* C11: find_term_definition answers the index of the first line that starts
\* with the term as the document writes it, at column 0, and line 0,
\* column 0 when no line does, an empty document included; it does not fail
\* and neither number is negative.  Whether a line that goes on with a word
\* character behind the term counts is left open here: a line where the term
\* is a whole token counts, and no later line is answered; the line answered
\* starts with the term; and without a line that starts with the term the
\* answer is line 0.
C11_FirstLineStartingWithTerm ==
    op.name = "find_term_definition" =>
        /\ ~result.raised
        /\ result.value[1] >= 0 /\ result.value[2] = 0
        /\ \A k \in 1..Len(op.lines) :
              StartsWithToken(op.lines, k, op.ns, op.lname)
                  => /\ result.value[1] < k
                     /\ StartsWithTerm(op.lines, result.value[1] + 1, op.ns, op.lname)
        /\ (\A k \in 1..Len(op.lines) : ~StartsWithTerm(op.lines, k, op.ns, op.lname))
              => result.value = <<0, 0>>

====
